---- MODULE Spec2Model ----
(***************************************************************************)
(* Registration of global memory roots (runtime/globroots.c).              *)
(*                                                                         *)
(* Three root lists (skip lists keyed by the root's address, the data      *)
(* being ROOT_PRESENT or ROOT_DELETED), one mutex, one thread-local        *)
(* counter.  Every lock acquisition, every list update, every read and     *)
(* write of a root's slot is a step of its own, so that the calls of       *)
(* several threads interleave exactly where the C code lets them.          *)
(***************************************************************************)
EXTENDS Integers, Sequences, FiniteSets, TLC

(* ------------------------------------------------------------------ *)
(* Bounds of the model                                                 *)
(* ------------------------------------------------------------------ *)

\* addresses of roots are 1..NumAddrs
NumAddrs == 3

\* number of calls (register, remove, modify, scan) in one behaviour, those that
\* a scanning action makes included
MaxOps == 4

Addrs == 1..NumAddrs

Threads == {"t1", "t2"}

(* ------------------------------------------------------------------ *)
(* Values and their classification                                     *)
(* ------------------------------------------------------------------ *)

\* a small integer, a pointer into the minor heap, a pointer into the major heap
Values == {"int", "minor_ptr", "major_ptr"}

Is_block(v) == v # "int"

Is_young(v) == v = "minor_ptr"

YOUNG == "YOUNG"

OLD == "OLD"

UNTRACKED == "UNTRACKED"

classify_gc_root(v) ==
  IF ~Is_block(v) THEN UNTRACKED
  ELSE IF Is_young(v) THEN YOUNG
  ELSE OLD

(* ------------------------------------------------------------------ *)
(* Skip lists: a finite map from keys to data                          *)
(* ------------------------------------------------------------------ *)

ROOT_PRESENT == 0

ROOT_DELETED == 1

NULL == 0

\* SKIPLIST_STATIC_INITIALIZER: the empty map
SKIPLIST_STATIC_INITIALIZER == [k \in {} |-> ROOT_PRESENT]

\* insert, or replace the data of an existing key
caml_skiplist_insert(sk, key, data) ==
  [k \in (DOMAIN sk) \cup {key} |-> IF k = key THEN data ELSE sk[k]]

\* remove a key; nothing happens when the key is absent
caml_skiplist_remove(sk, key) ==
  [k \in (DOMAIN sk) \ {key} |-> sk[k]]

\* pointer to the data of a key, NULL when absent: here, whether it is found
caml_skiplist_find_ptr(sk, key) == key \in DOMAIN sk

caml_skiplist_empty(sk) == SKIPLIST_STATIC_INITIALIZER

\* the smallest key greater than k (k = NULL: the first key), NULL at the end
SkiplistNext(sk, k) ==
  LET after == {x \in DOMAIN sk : x > k}
  IN IF after = {} THEN NULL
     ELSE CHOOSE x \in after : \A y \in after : x <= y

SkiplistFirst(sk) == SkiplistNext(sk, NULL)

(* ------------------------------------------------------------------ *)
(* State                                                               *)
(* ------------------------------------------------------------------ *)

caml_global_roots == "caml_global_roots"

caml_global_roots_young == "caml_global_roots_young"

caml_global_roots_old == "caml_global_roots_old"

Lists == {caml_global_roots, caml_global_roots_young, caml_global_roots_old}

FREE == "free"

VARIABLES
  lists,            \* the three skip lists
  slot,             \* *r for every address r
  roots_mutex,      \* FREE, or the thread holding the mutex
  iterating_roots,  \* the thread-local counter of every thread
  th,               \* every thread's position and locals
  reg,              \* what the callers have registered: "none", "mutable", "gen"
  hist,             \* what has happened to a generational root since it was registered
  nops              \* calls started so far

vars == <<lists, slot, roots_mutex, iterating_roots, th, reg, hist, nops>>

\* a thread between two calls
Idle ==
  [pc |-> "idle", op |-> "none", r |-> NULL, newval |-> "int", todo |-> <<>>,
   scan |-> "none", stage |-> "none", cursor |-> NULL, rewrite |-> FALSE,
   calls |-> "none", log |-> <<>>]

Init ==
  /\ lists = [l \in Lists |-> SKIPLIST_STATIC_INITIALIZER]
  /\ slot = [a \in Addrs |-> "int"]
  /\ roots_mutex = FREE
  /\ iterating_roots = [t \in Threads |-> 0]
  /\ th = [t \in Threads |-> Idle]
  /\ reg = [a \in Addrs |-> "none"]
  /\ hist = [a \in Addrs |-> "none"]
  /\ nops = 0

(* ------------------------------------------------------------------ *)
(* The calls a public function makes on the lists                      *)
(* ------------------------------------------------------------------ *)

Ins(l) == [kind |-> "ins", list |-> l]

Del(l) == [kind |-> "del", list |-> l]

\* caml_register_global_root: insert into caml_global_roots
caml_register_global_root == <<Ins(caml_global_roots)>>

\* caml_remove_global_root: delete from caml_global_roots
caml_remove_global_root == <<Del(caml_global_roots)>>

\* every root that holds a pointer is put in the young list
caml_register_generational_global_root_AllYoung(v) ==
  CASE classify_gc_root(v) = YOUNG -> <<Ins(caml_global_roots_young)>>
    [] classify_gc_root(v) = OLD -> <<Ins(caml_global_roots_young)>>
    [] OTHER -> <<>>

\* caml_register_generational_global_root, v being *r
caml_register_generational_global_root(v) ==
  CASE classify_gc_root(v) = YOUNG -> <<Ins(caml_global_roots_young)>>
    [] classify_gc_root(v) = OLD -> <<Ins(caml_global_roots_old)>>
    [] OTHER -> <<>>

\* a root that holds a young pointer is looked for in the old list
caml_remove_generational_global_root_Swapped(v) ==
  CASE classify_gc_root(v) = OLD ->
         <<Del(caml_global_roots_old), Del(caml_global_roots_young)>>
    [] classify_gc_root(v) = YOUNG -> <<Del(caml_global_roots_old)>>
    [] OTHER -> <<>>

\* caml_remove_generational_global_root, v being *r: OLD falls through to YOUNG
caml_remove_generational_global_root(v) ==
  CASE classify_gc_root(v) = OLD ->
         <<Del(caml_global_roots_old), Del(caml_global_roots_young)>>
    [] classify_gc_root(v) = YOUNG -> <<Del(caml_global_roots_young)>>
    [] OTHER -> <<>>

\* a young root given an old pointer is moved to the old list at once
caml_modify_generational_global_root_Eager(v, newval) ==
  LET c == classify_gc_root(v)
  IN CASE classify_gc_root(newval) = YOUNG ->
            (IF c = OLD THEN <<Del(caml_global_roots_old)>> ELSE <<>>)
            \o (IF c # YOUNG THEN <<Ins(caml_global_roots_young)>> ELSE <<>>)
       [] classify_gc_root(newval) = OLD ->
            (IF c = YOUNG THEN <<Del(caml_global_roots_young)>> ELSE <<>>)
            \o (IF c # OLD THEN <<Ins(caml_global_roots_old)>> ELSE <<>>)
       [] OTHER -> caml_remove_generational_global_root(v)

\* a root given a value that is no pointer stays in its list
caml_modify_generational_global_root_Keeps(v, newval) ==
  LET c == classify_gc_root(v)
  IN CASE classify_gc_root(newval) = YOUNG ->
            (IF c = OLD THEN <<Del(caml_global_roots_old)>> ELSE <<>>)
            \o (IF c # YOUNG THEN <<Ins(caml_global_roots_young)>> ELSE <<>>)
       [] classify_gc_root(newval) = OLD ->
            (IF c = UNTRACKED THEN <<Ins(caml_global_roots_old)>> ELSE <<>>)
       [] OTHER -> <<>>

\* a root that held an old pointer is not put in the young list
caml_modify_generational_global_root_NoInsert(v, newval) ==
  LET c == classify_gc_root(v)
  IN CASE classify_gc_root(newval) = YOUNG ->
            (IF c = OLD THEN <<Del(caml_global_roots_old)>> ELSE <<>>)
            \o (IF c = UNTRACKED THEN <<Ins(caml_global_roots_young)>> ELSE <<>>)
       [] classify_gc_root(newval) = OLD ->
            (IF c = UNTRACKED THEN <<Ins(caml_global_roots_old)>> ELSE <<>>)
       [] OTHER -> caml_remove_generational_global_root(v)

\* caml_modify_generational_global_root, v being *r: the list calls made
\* before the assignment *r = newval
caml_modify_generational_global_root(v, newval) ==
  LET c == classify_gc_root(v)
  IN CASE classify_gc_root(newval) = YOUNG ->
            (IF c = OLD THEN <<Del(caml_global_roots_old)>> ELSE <<>>)
            \o (IF c # YOUNG THEN <<Ins(caml_global_roots_young)>> ELSE <<>>)
       [] classify_gc_root(newval) = OLD ->
            (IF c = UNTRACKED THEN <<Ins(caml_global_roots_old)>> ELSE <<>>)
       [] OTHER -> caml_remove_generational_global_root(v)

\* caml_iterate_global_roots: an entry whose data is ROOT_DELETED is removed,
\* any other is scanned
EntryDeleted_Never(data) == FALSE

EntryDeleted(data) == data = ROOT_DELETED

DeleteMarks_Always(depth) == TRUE

DeleteMarks_Never(depth) == FALSE

\* caml_delete_global_root: mark the entry when the calling thread is
\* iterating, remove it under the mutex otherwise
DeleteMarks(depth) == depth > 0

(* ------------------------------------------------------------------ *)
(* Callers                                                             *)
(* ------------------------------------------------------------------ *)

\* a call on address a has started and not yet returned: the slot belongs
\* to its caller, no second call on it starts meanwhile
InCall(a) == \E u \in Threads : th[u].pc \in {"call", "locked"} /\ th[u].r = a

\* thread t may enter a public function: it is between two calls, or inside
\* a scanning action that makes such calls ("remove": the two remove
\* functions, "any": every function).  Threads between two calls are
\* interchangeable: of two such threads the first one makes the call.
MayCall(t, removes) ==
  /\ nops < MaxOps
  /\ \/ th[t].pc = "idle" /\ (t = "t1" \/ th["t1"].pc # "idle")
     \/ th[t].pc = "callback" /\ (th[t].calls = "any" \/ (removes /\ th[t].calls = "remove"))

\* the thread's record when its call returns: back in the scan's walk when
\* the call was made by the scanning action, between two calls otherwise
Returned(rec) ==
  [rec EXCEPT !.pc = IF rec.scan # "none" THEN "scan" ELSE "idle",
              !.op = "none", !.r = NULL, !.newval = "int", !.todo = <<>>]

\* nothing is left to do in the call but to return
Completes(rec) == rec.todo = <<>> /\ rec.op # "modify_generational_global_root"

\* the thread's record once it has entered a call and decided the list
\* calls to make
Entered(rec, op, r, newval, todo) ==
  LET e == [rec EXCEPT !.pc = "call", !.op = op, !.r = r, !.newval = newval,
                       !.todo = todo,
                       !.log = IF rec.pc = "callback" THEN Append(@, <<op, r>>) ELSE @]
  IN IF Completes(e) THEN Returned(e) ELSE e

\* the thread's record after one list call
Advanced(rec) ==
  LET e == [rec EXCEPT !.pc = "call", !.todo = Tail(@)]
  IN IF Completes(e) THEN Returned(e) ELSE e

\* a root is registered once the register function has returned
RegisteredBy(rec, after) ==
  IF after.op # "none" THEN reg
  ELSE CASE rec.op = "register_global_root" -> [reg EXCEPT ![rec.r] = "mutable"]
         [] rec.op = "register_generational_global_root" -> [reg EXCEPT ![rec.r] = "gen"]
         [] OTHER -> reg

(* ------------------------------------------------------------------ *)
(* The history of a root, kept for the properties                      *)
(* ------------------------------------------------------------------ *)

\* hist[a] follows the calls made on a since its registration:
\*   "regY"      registered holding a young pointer, a being in no old list,
\*               and nothing since
\*   "setting"   then caml_modify_generational_global_root(a, old pointer) entered
\*   "setOld"    ... and returned
\*   "promoted"  registered as in "regY", then moved by a minor scan
\*   "regYs"     registered holding a young pointer, an entry for a being in
\*               the old list, and nothing since
\*   "unregY"    registered as in "regY" or "regYs", then
\*               caml_remove_generational_global_root(a) entered while no
\*               thread was scanning, and no call on a since
\*   "untracking" caml_modify_generational_global_root(a, no pointer) entered,
\*               a holding a pointer
\*   "untracked" ... and returned, and no call on a since
\*   "none"      anything else
HistEntered(op, r, newval) ==
  [hist EXCEPT ![r] =
     IF /\ op = "modify_generational_global_root" /\ @ = "regY"
        /\ classify_gc_root(newval) = OLD /\ classify_gc_root(slot[r]) = YOUNG
     THEN "setting"
     ELSE IF /\ op = "modify_generational_global_root"
             /\ classify_gc_root(newval) = UNTRACKED
             /\ classify_gc_root(slot[r]) # UNTRACKED
          THEN "untracking"
     ELSE IF /\ op = "remove_generational_global_root"
             /\ @ \in {"regY", "regYs"}
             /\ \A u \in Threads : iterating_roots[u] = 0
          THEN "unregY" ELSE "none"]

HistInserted(rec) ==
  IF /\ rec.op = "register_generational_global_root"
     /\ Head(rec.todo).list = caml_global_roots_young
  THEN [hist EXCEPT ![rec.r] =
          IF rec.r \notin DOMAIN lists[caml_global_roots_old] THEN "regY" ELSE "regYs"]
  ELSE hist

HistAssigned(r) ==
  [hist EXCEPT ![r] = CASE @ = "setting" -> "setOld"
                        [] @ = "untracking" -> "untracked"
                        [] OTHER -> "none"]

HistPromoted ==
  [a \in Addrs |->
     IF a \in DOMAIN lists[caml_global_roots_young]
     THEN CASE hist[a] = "regY" -> "promoted"
            [] hist[a] = "untracked" -> "untracked"
            [] OTHER -> "none"
     ELSE hist[a]]

(* ------------------------------------------------------------------ *)
(* The public functions: entry, and the reads of *r                    *)
(* ------------------------------------------------------------------ *)

RegisterGlobalRoot(t, r) ==
  /\ MayCall(t, FALSE)
  /\ reg[r] = "none" /\ ~InCall(r)
  /\ th' = [th EXCEPT ![t] = Entered(@, "register_global_root", r, "int",
                                     caml_register_global_root)]
  /\ hist' = HistEntered("register_global_root", r, "int")
  /\ nops' = nops + 1
  /\ UNCHANGED <<lists, slot, roots_mutex, iterating_roots, reg>>

RemoveGlobalRoot(t, r) ==
  /\ MayCall(t, TRUE)
  /\ reg[r] \in {"none", "mutable"} /\ ~InCall(r)
  /\ th' = [th EXCEPT ![t] = Entered(@, "remove_global_root", r, "int",
                                     caml_remove_global_root)]
  /\ reg' = [reg EXCEPT ![r] = "none"]
  /\ hist' = HistEntered("remove_global_root", r, "int")
  /\ nops' = nops + 1
  /\ UNCHANGED <<lists, slot, roots_mutex, iterating_roots>>

\* the caller has stored v in the slot before registering it
RegisterGenerational(t, r, v) ==
  /\ MayCall(t, FALSE)
  /\ reg[r] = "none" /\ ~InCall(r)
  /\ slot' = [slot EXCEPT ![r] = v]
  /\ LET e == Entered(th[t], "register_generational_global_root", r, "int",
                      caml_register_generational_global_root(v))
     IN /\ th' = [th EXCEPT ![t] = e]
        /\ reg' = IF e.op = "none" THEN [reg EXCEPT ![r] = "gen"] ELSE reg
  /\ hist' = HistEntered("register_generational_global_root", r, v)
  /\ nops' = nops + 1
  /\ UNCHANGED <<lists, roots_mutex, iterating_roots>>

RemoveGenerational(t, r) ==
  /\ MayCall(t, TRUE)
  /\ reg[r] \in {"none", "gen"} /\ ~InCall(r)
  /\ th' = [th EXCEPT ![t] = Entered(@, "remove_generational_global_root", r, "int",
                                     caml_remove_generational_global_root(slot[r]))]
  /\ reg' = [reg EXCEPT ![r] = "none"]
  /\ hist' = HistEntered("remove_generational_global_root", r, "int")
  /\ nops' = nops + 1
  /\ UNCHANGED <<lists, slot, roots_mutex, iterating_roots>>

ModifyGenerational(t, r, newval) ==
  /\ MayCall(t, FALSE)
  /\ reg[r] = "gen" /\ ~InCall(r)
  /\ th' = [th EXCEPT ![t] = Entered(@, "modify_generational_global_root", r, newval,
                                     caml_modify_generational_global_root(slot[r], newval))]
  /\ hist' = HistEntered("modify_generational_global_root", r, newval)
  /\ nops' = nops + 1
  /\ UNCHANGED <<lists, slot, roots_mutex, iterating_roots, reg>>

(* ------------------------------------------------------------------ *)
(* caml_insert_global_root and caml_delete_global_root                 *)
(* ------------------------------------------------------------------ *)

\* caml_plat_lock_blocking(&roots_mutex): the thread waits until the mutex is free
InsertLock(t) ==
  /\ th[t].pc = "call" /\ th[t].todo # <<>> /\ Head(th[t].todo).kind = "ins"
  /\ roots_mutex = FREE
  /\ roots_mutex' = t
  /\ th' = [th EXCEPT ![t].pc = "locked"]
  /\ UNCHANGED <<lists, slot, iterating_roots, reg, hist, nops>>

\* caml_skiplist_insert(list, r, ROOT_PRESENT); caml_plat_unlock(&roots_mutex)
InsertUnlock(t) ==
  /\ th[t].pc = "locked" /\ Head(th[t].todo).kind = "ins"
  /\ LET l == Head(th[t].todo).list
     IN lists' = [lists EXCEPT ![l] = caml_skiplist_insert(@, th[t].r, ROOT_PRESENT)]
  /\ roots_mutex' = FREE
  /\ th' = [th EXCEPT ![t] = Advanced(@)]
  /\ reg' = RegisteredBy(th[t], Advanced(th[t]))
  /\ hist' = HistInserted(th[t])
  /\ UNCHANGED <<slot, iterating_roots, nops>>

\* the entry is marked by inserting the key with the data ROOT_DELETED
MarkDeleted_Inserting(sk, key) == caml_skiplist_insert(sk, key, ROOT_DELETED)

\* p = caml_skiplist_find_ptr(list, r); if (p != NULL) *p = ROOT_DELETED
MarkDeleted(sk, key) ==
  IF caml_skiplist_find_ptr(sk, key) THEN [sk EXCEPT ![key] = ROOT_DELETED] ELSE sk

\* the thread is iterating: it holds the mutex, and marks the entry
DeleteMark(t) ==
  /\ th[t].pc = "call" /\ th[t].todo # <<>> /\ Head(th[t].todo).kind = "del"
  /\ DeleteMarks(iterating_roots[t])
  /\ LET l == Head(th[t].todo).list
     IN lists' = [lists EXCEPT ![l] = MarkDeleted(@, th[t].r)]
  /\ th' = [th EXCEPT ![t] = Advanced(@)]
  /\ UNCHANGED <<slot, roots_mutex, iterating_roots, reg, hist, nops>>

DeleteLock(t) ==
  /\ th[t].pc = "call" /\ th[t].todo # <<>> /\ Head(th[t].todo).kind = "del"
  /\ ~DeleteMarks(iterating_roots[t])
  /\ roots_mutex = FREE
  /\ roots_mutex' = t
  /\ th' = [th EXCEPT ![t].pc = "locked"]
  /\ UNCHANGED <<lists, slot, iterating_roots, reg, hist, nops>>

\* caml_skiplist_remove(list, r); caml_plat_unlock(&roots_mutex)
DeleteUnlock(t) ==
  /\ th[t].pc = "locked" /\ Head(th[t].todo).kind = "del"
  /\ LET l == Head(th[t].todo).list
     IN lists' = [lists EXCEPT ![l] = caml_skiplist_remove(@, th[t].r)]
  /\ roots_mutex' = FREE
  /\ th' = [th EXCEPT ![t] = Advanced(@)]
  /\ UNCHANGED <<slot, iterating_roots, reg, hist, nops>>

\* the last statement of caml_modify_generational_global_root: *r = newval
Assign(t) ==
  /\ th[t].pc = "call" /\ th[t].todo = <<>>
  /\ slot' = [slot EXCEPT ![th[t].r] = th[t].newval]
  /\ th' = [th EXCEPT ![t] = Returned(@)]
  /\ hist' = HistAssigned(th[t].r)
  /\ UNCHANGED <<lists, roots_mutex, iterating_roots, reg, nops>>

(* ------------------------------------------------------------------ *)
(* Scanning                                                            *)
(* ------------------------------------------------------------------ *)

caml_scan_global_roots == "caml_scan_global_roots"

caml_scan_global_young_roots == "caml_scan_global_young_roots"

NextStage_SkipsOld(scan, stage) ==
  CASE stage = caml_global_roots -> caml_global_roots_young
    [] stage = caml_global_roots_young ->
         IF scan = caml_scan_global_roots THEN "end" ELSE "promote"
    [] OTHER -> "end"

NextStage_YoungWalksOld(scan, stage) ==
  CASE stage = caml_global_roots -> caml_global_roots_young
    [] stage = caml_global_roots_young -> caml_global_roots_old
    [] OTHER -> IF scan = caml_scan_global_roots THEN "end" ELSE "promote"

\* the lists a scan iterates, in order, and what follows them
NextStage(scan, stage) ==
  CASE stage = caml_global_roots -> caml_global_roots_young
    [] stage = caml_global_roots_young ->
         IF scan = caml_scan_global_roots THEN caml_global_roots_old ELSE "promote"
    [] OTHER -> "end"

\* the scanning action f(fdata, *r, r) on the value of a root: a minor
\* collection's action moves the young block and stores its new address
ScanningAction(rewrite, v) ==
  IF rewrite /\ classify_gc_root(v) = YOUNG THEN "major_ptr" ELSE v

\* where the walk stands once the loop over list l has reached element e
\* (NULL: its end): an empty list is passed at once, and after the last
\* list comes what NextStage says.  sk are the three lists.
RECURSIVE Walk(_, _, _, _)
Walk(sk, scan, l, e) ==
  IF l \notin Lists \/ e # NULL THEN [stage |-> l, cursor |-> e]
  ELSE LET s == NextStage(scan, l)
       IN Walk(sk, scan, s, IF s \in Lists THEN SkiplistFirst(sk[s]) ELSE NULL)

\* caml_plat_lock_blocking; iterating_roots ++; the first loop starts
ScanLock(t, scan, rewrite, calls) ==
  /\ MayCall(t, FALSE) /\ th[t].pc = "idle"
  /\ rewrite => scan = caml_scan_global_young_roots
  /\ roots_mutex = FREE
  /\ roots_mutex' = t
  /\ iterating_roots' = [iterating_roots EXCEPT ![t] = @ + 1]
  /\ LET w == Walk(lists, scan, caml_global_roots, SkiplistFirst(lists[caml_global_roots]))
     IN th' = [th EXCEPT ![t] =
                 [@ EXCEPT !.pc = "scan", !.scan = scan, !.stage = w.stage,
                           !.cursor = w.cursor, !.rewrite = rewrite,
                           !.calls = calls, !.log = <<>>]]
  /\ nops' = nops + 1
  /\ UNCHANGED <<lists, slot, reg, hist>>

\* one element of FOREACH_SKIPLIST_ELEMENT in caml_iterate_global_roots:
\* the next element is read before the body runs
IterateElement(t) ==
  /\ th[t].pc = "scan" /\ th[t].stage \in Lists /\ th[t].cursor # NULL
  /\ LET l == th[t].stage
         e == th[t].cursor
         w == Walk(lists, th[t].scan, l, SkiplistNext(lists[l], e))
     IN IF EntryDeleted(lists[l][e])
        THEN /\ lists' = [lists EXCEPT ![l] = caml_skiplist_remove(@, e)]
             /\ th' = [th EXCEPT ![t].stage = w.stage, ![t].cursor = w.cursor]
             /\ slot' = slot
        ELSE /\ slot' = [slot EXCEPT ![e] = ScanningAction(th[t].rewrite, @)]
             /\ th' = [th EXCEPT ![t].stage = w.stage, ![t].cursor = w.cursor,
                                 ![t].log = Append(@, <<l, e>>),
                                 ![t].pc = IF th[t].calls = "none" THEN "scan"
                                           ELSE "callback"]
             /\ lists' = lists
  /\ UNCHANGED <<roots_mutex, iterating_roots, reg, hist, nops>>

\* the scanning action returns
CallbackReturn(t) ==
  /\ th[t].pc = "callback"
  /\ th' = [th EXCEPT ![t].pc = "scan"]
  /\ UNCHANGED <<lists, slot, roots_mutex, iterating_roots, reg, hist, nops>>

\* "Move young roots to old roots": every element of the young list is
\* inserted in the old list with data 0
RECURSIVE MoveYoungToOld(_, _, _)
MoveYoungToOld(young, old, e) ==
  IF e = NULL THEN old
  ELSE MoveYoungToOld(young, caml_skiplist_insert(old, e, ROOT_PRESENT),
                      SkiplistNext(young, e))

MoveYoungRoots_Forgets(young, old) == old

\* the old list after the loop
MoveYoungRoots(young, old) == MoveYoungToOld(young, old, SkiplistFirst(young))

Promote(t) ==
  /\ th[t].pc = "scan" /\ th[t].stage = "promote"
  /\ lists' = [lists EXCEPT
                 ![caml_global_roots_old] =
                    MoveYoungRoots(lists[caml_global_roots_young], @),
                 ![caml_global_roots_young] = caml_skiplist_empty(@)]
  /\ th' = [th EXCEPT ![t].stage = "end"]
  /\ hist' = HistPromoted
  /\ UNCHANGED <<slot, roots_mutex, iterating_roots, reg, nops>>

ScanUnlock_NoDecrement(t) ==
  /\ th[t].pc = "scan" /\ th[t].stage = "end"
  /\ roots_mutex' = FREE
  /\ th' = [th EXCEPT ![t] = Idle]
  /\ UNCHANGED <<lists, slot, iterating_roots, reg, hist, nops>>

\* iterating_roots --; caml_plat_unlock
ScanUnlock(t) ==
  /\ th[t].pc = "scan" /\ th[t].stage = "end"
  /\ iterating_roots' = [iterating_roots EXCEPT ![t] = @ - 1]
  /\ roots_mutex' = FREE
  /\ th' = [th EXCEPT ![t] = Idle]
  /\ UNCHANGED <<lists, slot, reg, hist, nops>>

(* ------------------------------------------------------------------ *)
(* Specification                                                       *)
(* ------------------------------------------------------------------ *)

CallbackCalls == {"none", "remove", "any"}

Next ==
  \E t \in Threads :
    \/ \E r \in Addrs : RegisterGlobalRoot(t, r)
    \/ \E r \in Addrs : RemoveGlobalRoot(t, r)
    \/ \E r \in Addrs, v \in Values : RegisterGenerational(t, r, v)
    \/ \E r \in Addrs : RemoveGenerational(t, r)
    \/ \E r \in Addrs, v \in Values : ModifyGenerational(t, r, v)
    \/ InsertLock(t)
    \/ InsertUnlock(t)
    \/ DeleteMark(t)
    \/ DeleteLock(t)
    \/ DeleteUnlock(t)
    \/ Assign(t)
    \/ \E scan \in {caml_scan_global_roots, caml_scan_global_young_roots},
          rewrite \in BOOLEAN, calls \in CallbackCalls :
         ScanLock(t, scan, rewrite, calls)
    \/ IterateElement(t)
    \/ CallbackReturn(t)
    \/ Promote(t)
    \/ ScanUnlock(t)

Spec == Init /\ [][Next]_vars

\* The minor collection's use of caml_scan_global_young_roots: the world is
\* stopped (no other thread is inside a call), the scanning action moves every
\* young block it is given, and calls no function of this file.
StopTheWorld ==
  \A t \in Threads :
    th[t].scan = caml_scan_global_young_roots =>
      /\ th[t].rewrite /\ th[t].calls = "none"
      /\ \A u \in Threads \ {t} : th[u].pc = "idle"

NextStw ==
  \E t \in Threads :
    \/ \E r \in Addrs : RegisterGlobalRoot(t, r) /\ StopTheWorld'
    \/ \E r \in Addrs : RemoveGlobalRoot(t, r) /\ StopTheWorld'
    \/ \E r \in Addrs, v \in Values : RegisterGenerational(t, r, v) /\ StopTheWorld'
    \/ \E r \in Addrs : RemoveGenerational(t, r) /\ StopTheWorld'
    \/ \E r \in Addrs, v \in Values : ModifyGenerational(t, r, v) /\ StopTheWorld'
    \/ InsertLock(t) /\ StopTheWorld'
    \/ InsertUnlock(t) /\ StopTheWorld'
    \/ DeleteMark(t) /\ StopTheWorld'
    \/ DeleteLock(t) /\ StopTheWorld'
    \/ DeleteUnlock(t) /\ StopTheWorld'
    \/ Assign(t) /\ StopTheWorld'
    \/ \E scan \in {caml_scan_global_roots, caml_scan_global_young_roots},
          rewrite \in BOOLEAN, calls \in CallbackCalls :
         ScanLock(t, scan, rewrite, calls) /\ StopTheWorld'
    \/ IterateElement(t) /\ StopTheWorld'
    \/ CallbackReturn(t) /\ StopTheWorld'
    \/ Promote(t) /\ StopTheWorld'
    \/ ScanUnlock(t) /\ StopTheWorld'

SpecStw == Init /\ [][NextStw]_vars

(* ------------------------------------------------------------------ *)
(* Vocabulary of the properties                                        *)
(* ------------------------------------------------------------------ *)

\* a is a Present entry of list l
Present(l, a) == a \in DOMAIN lists[l] /\ lists[l][a] = ROOT_PRESENT

\* an element of a scan's log is a call of the scanning action on <<list, root>>,
\* or a call <<public function, root>> made by the scanning action
IsVisit(x) == x[1] \in Lists

VisitLog(log) == SelectSeq(log, IsVisit)

\* how many times the scan has called the scanning action on entry a of list l
Visits(log, l, a) == Cardinality({i \in 1..Len(log) : log[i] = <<l, a>>})

\* how many times the scan has called the scanning action on root a
VisitsOf(log, a) == Cardinality({i \in 1..Len(log) : IsVisit(log[i]) /\ log[i][2] = a})

ListRank(l) ==
  CASE l = caml_global_roots -> 1
    [] l = caml_global_roots_young -> 2
    [] OTHER -> 3

\* the scanning action was called list after list, and in a list in key order
InWalkOrder(log) ==
  LET v == VisitLog(log)
  IN \A i, j \in 1..Len(v) :
       i < j => \/ ListRank(v[i][1]) < ListRank(v[j][1])
                \/ v[i][1] = v[j][1] /\ v[i][2] < v[j][2]

\* thread t has finished the loops of its scan and not yet released the mutex
WalksDone(t, scan) ==
  th[t].pc = "scan" /\ th[t].scan = scan /\ th[t].stage \in {"promote", "end"}

\* mutable root M, generational roots Y (young pointer) and O (old pointer),
\* and nothing else in the lists
Scenario(M, Y, O) ==
  /\ M # Y /\ Y # O /\ M # O
  /\ reg[M] = "mutable" /\ reg[Y] = "gen" /\ reg[O] = "gen"
  /\ lists[caml_global_roots] = [k \in {M} |-> ROOT_PRESENT]
  /\ lists[caml_global_roots_young] = [k \in {Y} |-> ROOT_PRESENT]
  /\ lists[caml_global_roots_old] = [k \in {O} |-> ROOT_PRESENT]

(* ------------------------------------------------------------------ *)
(* C2                                                                  *)
(* ------------------------------------------------------------------ *)

\* C2: when caml_scan_global_roots has finished its three loops, the scanning
\* action has been called exactly once on every entry that is in a list
\* (Present when the loop reached it) and on nothing else - an entry found
\* Deleted was removed, not scanned -, in the order mutable, young, old; with
\* mutable root M, young root Y and old root O alone in the lists the calls
\* are exactly M, Y, O.
C2_ScanAllVisitsPresentOnce ==
  \A t \in Threads :
    WalksDone(t, caml_scan_global_roots) =>
      /\ \A l \in Lists, a \in Addrs :
           Visits(th[t].log, l, a) = IF a \in DOMAIN lists[l] THEN 1 ELSE 0
      /\ InWalkOrder(th[t].log)
      /\ \A M, Y, O \in Addrs :
           Scenario(M, Y, O) =>
             VisitLog(th[t].log) = << <<caml_global_roots, M>>,
                                      <<caml_global_roots_young, Y>>,
                                      <<caml_global_roots_old, O>> >>

C2_Witness ==
  \E t \in Threads, M, Y, O \in Addrs :
    /\ WalksDone(t, caml_scan_global_roots)
    /\ Scenario(M, Y, O)
    /\ slot[Y] = "minor_ptr" /\ slot[O] = "major_ptr"
    /\ Len(th[t].log) = 3

(* ------------------------------------------------------------------ *)
(* C3                                                                  *)
(* ------------------------------------------------------------------ *)

\* C3: a generational root registered holding a young pointer and then passed
\* by a complete caml_scan_global_young_roots is in the old list, Present, and
\* not in the young list; the young list is empty when that scan is about to
\* release the mutex, and no root is left behind by it; a later
\* caml_scan_global_roots calls the scanning action on the root exactly once.
C3_Promotion ==
  /\ \A a \in Addrs :
       hist[a] = "promoted" =>
         /\ a \notin DOMAIN lists[caml_global_roots_young]
         /\ Present(caml_global_roots_old, a)
  /\ \A t \in Threads :
       (th[t].scan = caml_scan_global_young_roots /\ th[t].stage = "end") =>
         /\ DOMAIN lists[caml_global_roots_young] = {}
         /\ \A a \in Addrs : hist[a] # "regY"
  /\ \A t \in Threads, a \in Addrs :
       (WalksDone(t, caml_scan_global_roots) /\ hist[a] = "promoted") =>
         VisitsOf(th[t].log, a) = 1

C3_Witness ==
  \E t \in Threads, a \in Addrs :
    /\ WalksDone(t, caml_scan_global_roots)
    /\ hist[a] = "promoted"
    /\ VisitsOf(th[t].log, a) = 1

(* ------------------------------------------------------------------ *)
(* C4                                                                  *)
(* ------------------------------------------------------------------ *)

\* C4: when caml_scan_global_young_roots has finished its two loops, the
\* scanning action has been called exactly once on every entry of the mutable
\* list and of the young list, mutable list first, and on no entry of the old
\* list; with M, Y and O as above the calls are exactly M, Y.
C4_ScanYoungVisits ==
  \A t \in Threads :
    /\ (th[t].scan = caml_scan_global_young_roots /\ th[t].stage = "promote") =>
         /\ \A l \in Lists, a \in Addrs :
              Visits(th[t].log, l, a) =
                IF l # caml_global_roots_old /\ a \in DOMAIN lists[l] THEN 1 ELSE 0
         /\ InWalkOrder(th[t].log)
         /\ \A M, Y, O \in Addrs :
              Scenario(M, Y, O) =>
                VisitLog(th[t].log) = << <<caml_global_roots, M>>,
                                         <<caml_global_roots_young, Y>> >>
    /\ th[t].scan = caml_scan_global_young_roots =>
         \A a \in Addrs : Visits(th[t].log, caml_global_roots_old, a) = 0

C4_Witness ==
  \E t \in Threads, M, Y, O \in Addrs :
    /\ th[t].scan = caml_scan_global_young_roots /\ th[t].stage = "promote"
    /\ Scenario(M, Y, O)
    /\ slot[O] = "major_ptr"
    /\ Len(th[t].log) = 2

(* ------------------------------------------------------------------ *)
(* C5                                                                  *)
(* ------------------------------------------------------------------ *)

\* the scanning action has just been called on entry e of the mutable list
JustVisited(t, e) ==
  /\ th[t].scan # "none" /\ th[t].log # <<>>
  /\ th[t].log[Len(th[t].log)] = <<caml_global_roots, e>>

\* C5: once the scanning action of caml_scan_global_roots has called
\* caml_remove_global_root(C), the scan does not call the scanning action on C
\* any more and C is no Present entry of the mutable list; when the scan has
\* finished its loops, every entry still Present has been scanned exactly once
\* and none twice; and no scan ever calls the scanning action on an entry of
\* the mutable list whose root is not registered (a remove by another thread
\* that still waits for the mutex apart).
C5_DeletionDuringScan ==
  \A t \in Threads :
    /\ th[t].scan = caml_scan_global_roots =>
         \A i \in 1..Len(th[t].log) :
           th[t].log[i][1] = "remove_global_root" =>
             /\ \A j \in (i + 1)..Len(th[t].log) :
                  th[t].log[j] # <<caml_global_roots, th[t].log[i][2]>>
             /\ (th[t].pc = "scan" \/ th[t].pc = "callback")
                  => ~Present(caml_global_roots, th[t].log[i][2])
    /\ WalksDone(t, caml_scan_global_roots) =>
         \A l \in Lists, a \in Addrs :
           /\ Visits(th[t].log, l, a) <= 1
           /\ Present(l, a) => Visits(th[t].log, l, a) = 1
    /\ \A e \in Addrs :
         JustVisited(t, e) => reg[e] = "mutable" \/ InCall(e)

\* B is scanned, its scanning action removes C, which comes after B and has
\* not been scanned; the scan ends without scanning C, and scans another root
C5_Witness ==
  \E t \in Threads, B, C \in Addrs :
    /\ WalksDone(t, caml_scan_global_roots)
    /\ B < C
    /\ \E i \in 1..Len(th[t].log) - 1 :
         /\ th[t].log[i] = <<caml_global_roots, B>>
         /\ th[t].log[i + 1] = <<"remove_global_root", C>>
    /\ Visits(th[t].log, caml_global_roots, C) = 0
    /\ C \notin DOMAIN lists[caml_global_roots]
    /\ reg[B] = "mutable"

(* ------------------------------------------------------------------ *)
(* C6                                                                  *)
(* ------------------------------------------------------------------ *)

\* a thread inside the critical section of an insertion, a deletion or a scan
InCriticalSection(t) == th[t].pc = "locked" \/ th[t].scan # "none"

\* the step is one of thread t and of no other thread
StepOf(t) == th'[t] # th[t] /\ \A u \in Threads \ {t} : th'[u] = th[u]

\* C6: a thread is inside the critical section of an insertion, a deletion or a
\* scan only while it holds roots_mutex, so that at most one thread is; and
\* every step that changes a list (an insertion, a removal, emptying, a mark)
\* is a step of the thread that holds roots_mutex.
C6_MutationsUnderMutex ==
  /\ [](\A t \in Threads : InCriticalSection(t) => roots_mutex = t)
  /\ [][lists' # lists => \E t \in Threads : roots_mutex = t /\ StepOf(t)]_vars

\* a thread waits to insert while another thread scans
C6_Witness ==
  \E t, u \in Threads :
    /\ t # u
    /\ th[t].scan # "none" /\ th[t].cursor # NULL
    /\ th[u].pc = "call" /\ th[u].todo # <<>>
    /\ \E a \in Addrs : a \in DOMAIN lists[caml_global_roots]

(* ------------------------------------------------------------------ *)
(* C7                                                                  *)
(* ------------------------------------------------------------------ *)

\* thread t is in caml_delete_global_root(l, a), before its test of iterating_roots
AtDelete(t, l, a) ==
  /\ th[t].pc = "call" /\ th[t].todo # <<>>
  /\ Head(th[t].todo) = Del(l) /\ th[t].r = a

\* C7: a thread that is iterating and calls caml_delete_global_root can always
\* take its step, which leaves roots_mutex and the keys of the list as they
\* are and sets the data of the entry, when there is one, to ROOT_DELETED; a
\* thread that is not iterating can take its step exactly when roots_mutex is
\* free, takes the mutex, and then removes the entry from the list.
C7_DeleteWhileIterating ==
  /\ [](\A t \in Threads, l \in Lists, a \in Addrs :
          AtDelete(t, l, a) =>
            IF iterating_roots[t] > 0
            THEN roots_mutex = t /\ ENABLED DeleteMark(t) /\ ~ENABLED DeleteLock(t)
            ELSE /\ ~ENABLED DeleteMark(t)
                 /\ ENABLED DeleteLock(t) <=> roots_mutex = FREE)
  /\ [][\A t \in Threads, l \in Lists, a \in Addrs :
          /\ (AtDelete(t, l, a) /\ StepOf(t)) =>
               IF iterating_roots[t] > 0
               THEN /\ roots_mutex' = roots_mutex
                    /\ DOMAIN lists'[l] = DOMAIN lists[l]
                    /\ a \in DOMAIN lists[l] => lists'[l][a] = ROOT_DELETED
                    /\ \A k \in Lists \ {l} : lists'[k] = lists[k]
                    /\ \A b \in DOMAIN lists[l] \ {a} : lists'[l][b] = lists[l][b]
               ELSE roots_mutex = FREE /\ roots_mutex' = t /\ lists' = lists
          /\ (th[t].pc = "locked" /\ Head(th[t].todo) = Del(l) /\ th[t].r = a
              /\ StepOf(t)) =>
               /\ a \notin DOMAIN lists'[l]
               /\ roots_mutex = t /\ roots_mutex' = FREE]_vars

\* a thread that is iterating is in caml_delete_global_root for an entry of
\* the list, while a thread that is not iterating waits in
\* caml_delete_global_root for the mutex
C7_Witness ==
  \E t, u \in Threads, l, k \in Lists, a, b \in Addrs :
    /\ t # u
    /\ AtDelete(u, l, b) /\ iterating_roots[u] > 0 /\ Present(l, b)
    /\ AtDelete(t, k, a) /\ iterating_roots[t] = 0 /\ roots_mutex = u

(* ------------------------------------------------------------------ *)
(* C1, C8, C9: the invariant of the generational roots                 *)
(* ------------------------------------------------------------------ *)

\* the first two lines of the invariant, for root a
HeapPointerTracked(a) ==
  /\ classify_gc_root(slot[a]) = YOUNG => Present(caml_global_roots_young, a)
  /\ classify_gc_root(slot[a]) = OLD =>
       Present(caml_global_roots_old, a) \/ Present(caml_global_roots_young, a)

\* the third line of the invariant, for root a
NonPointerUntracked(a) ==
  classify_gc_root(slot[a]) = UNTRACKED =>
    ~Present(caml_global_roots_young, a) /\ ~Present(caml_global_roots_old, a)

C8_AsStated ==
  roots_mutex = FREE =>
    \A a \in Addrs :
      Present(caml_global_roots_young, a) => classify_gc_root(slot[a]) = YOUNG

\* C8 as amended: whenever roots_mutex is free, every Present entry of the
\* young list on which no call is in progress is a root that holds a pointer
\* into the heap, young or old.
C8_YoungListHoldsPointers ==
  roots_mutex = FREE =>
    \A a \in Addrs :
      (Present(caml_global_roots_young, a) /\ ~InCall(a)) =>
        classify_gc_root(slot[a]) \in {YOUNG, OLD}

\* a root of the young list that holds an old pointer
C8_Witness ==
  /\ roots_mutex = FREE
  /\ \E a \in Addrs :
       /\ Present(caml_global_roots_young, a) /\ ~InCall(a)
       /\ reg[a] = "gen"
       /\ classify_gc_root(slot[a]) = OLD

C10_AsStated ==
  \A a \in Addrs :
    hist[a] = "setOld" =>
      ~Present(caml_global_roots_young, a) /\ Present(caml_global_roots_old, a)

\* C10 as amended: such a root holds the old pointer, is still a Present entry
\* of the young list and is not in the old list.
C10_StaysInYoungList ==
  \A a \in Addrs :
    hist[a] = "setOld" =>
      /\ slot[a] = "major_ptr"
      /\ Present(caml_global_roots_young, a)
      /\ a \notin DOMAIN lists[caml_global_roots_old]

C10_Witness ==
  \E a \in Addrs : hist[a] = "setOld" /\ reg[a] = "gen" /\ ~InCall(a)

(* ------------------------------------------------------------------ *)
(* C11                                                                 *)
(* ------------------------------------------------------------------ *)

\* the step is the entry of caml_remove_generational_global_root on root a
RemoveEntered(a) == reg[a] = "gen" /\ reg'[a] = "none"

\* C11: once caml_modify_generational_global_root has given a registered root
\* that held a heap pointer a value that is no pointer, and has returned, the
\* root is a Present entry of neither the young nor the old list; and a later
\* caml_remove_generational_global_root on it returns at once and leaves the
\* three lists as they are.
C11_AsStated ==
  /\ [](\A a \in Addrs :
          hist[a] = "untracked" =>
            /\ ~Present(caml_global_roots_young, a)
            /\ ~Present(caml_global_roots_old, a))
  /\ [][\A a \in Addrs :
          (hist[a] = "untracked" /\ RemoveEntered(a)) =>
            (~InCall(a))' /\ lists' = lists]_vars

(* ------------------------------------------------------------------ *)
(* C12                                                                 *)
(* ------------------------------------------------------------------ *)

\* thread t is about to insert while registering a generational root that
\* holds a young pointer
RegistersYoung(t) ==
  /\ th[t].op = "register_generational_global_root" /\ th[t].pc = "locked"
  /\ Head(th[t].todo) = Ins(caml_global_roots_young) /\ StepOf(t)

\* the step of thread t adds a Present entry for its root to list l and
\* changes nothing else in the lists
AddsEntry(t, l) ==
  /\ DOMAIN lists'[l] = DOMAIN lists[l] \cup {th[t].r}
  /\ lists'[l][th[t].r] = ROOT_PRESENT
  /\ \A b \in DOMAIN lists[l] \ {th[t].r} : lists'[l][b] = lists[l][b]
  /\ \A k \in Lists \ {l} : lists'[k] = lists[k]

\* the step of thread t takes the entry of its root out of list l and changes
\* nothing else in the lists
TakesEntry(t, l) ==
  /\ DOMAIN lists'[l] = DOMAIN lists[l] \ {th[t].r}
  /\ \A b \in DOMAIN lists'[l] : lists'[l][b] = lists[l][b]
  /\ \A k \in Lists \ {l} : lists'[k] = lists[k]

\* the registration and the removal that follows it, step by step: the
\* registration adds a Present entry to the young list only; the removal,
\* entered while no thread scans, makes the one call
\* caml_delete_global_root(&caml_global_roots_young, r), which takes that entry
\* out of the young list only; afterwards the address is in neither list
RoundTripSteps ==
  /\ [][\A t \in Threads :
          /\ RegistersYoung(t) => AddsEntry(t, caml_global_roots_young)
          /\ \A a \in Addrs :
               (hist[a] \in {"regY", "regYs"} /\ hist'[a] = "unregY" /\ StepOf(t)) =>
                 /\ th'[t].todo = <<Del(caml_global_roots_young)>>
                 /\ th'[t].r = a /\ lists' = lists
          /\ (/\ th[t].op = "remove_generational_global_root"
              /\ th[t].pc = "locked" /\ hist[th[t].r] = "unregY" /\ StepOf(t)) =>
                TakesEntry(t, caml_global_roots_young)]_vars
  /\ [](\A a \in Addrs :
          (hist[a] = "unregY" /\ ~InCall(a)) =>
            a \notin DOMAIN lists[caml_global_roots_young])

\* C12 as stated: registering a root that holds a young pointer and removing
\* it at once, outside any scan, leaves the young and the old list with the
\* entries they had: the steps are as above, and the address had no entry in
\* the young list when it was registered.
C12_AsStated ==
  /\ RoundTripSteps
  /\ [][\A t \in Threads :
          RegistersYoung(t) => th[t].r \notin DOMAIN lists[caml_global_roots_young]]_vars

\* C12 as amended: ... leaves the young and the old list with the Present
\* entries they had: the address was no Present entry of the young list when
\* it was registered (an entry marked ROOT_DELETED it had there is gone).
C12_RoundTrip ==
  /\ RoundTripSteps
  /\ [][\A t \in Threads :
          RegistersYoung(t) => ~Present(caml_global_roots_young, th[t].r)]_vars

\* a root that held a young pointer has been registered and removed at once
C12_Witness ==
  \E a \in Addrs :
    /\ hist[a] = "unregY" /\ ~InCall(a) /\ reg[a] = "none"
    /\ slot[a] = "minor_ptr"
    /\ \E b \in Addrs \ {a} : Present(caml_global_roots_young, b)

(* ------------------------------------------------------------------ *)
(* C13                                                                 *)
(* ------------------------------------------------------------------ *)

\* the step is the one by which the registration of address a, of the given
\* kind, returns
Registers(a, kind) == reg[a] = "none" /\ reg'[a] = kind

\* C13: when caml_register_generational_global_root(a) returns it has added a
\* Present entry for a to the young list and nothing else if *a is a young
\* pointer, to the old list and nothing else if *a is an old pointer, and has
\* left the three lists as they were if *a is no pointer; when
\* caml_register_global_root(a) returns it has added a Present entry for a to
\* caml_global_roots and nothing else; and no other step of a registration
\* changes a list.
C13_ClassificationOnRegistration ==
  [][/\ \A a \in Addrs :
          /\ Registers(a, "gen") =>
                CASE classify_gc_root(slot'[a]) = YOUNG ->
                       \E t \in Threads :
                         StepOf(t) /\ th[t].r = a /\ AddsEntry(t, caml_global_roots_young)
                  [] classify_gc_root(slot'[a]) = OLD ->
                       \E t \in Threads :
                         StepOf(t) /\ th[t].r = a /\ AddsEntry(t, caml_global_roots_old)
                  [] OTHER -> lists' = lists
          /\ Registers(a, "mutable") =>
                \E t \in Threads :
                  StepOf(t) /\ th[t].r = a /\ AddsEntry(t, caml_global_roots)
     /\ \A t \in Threads :
          (/\ StepOf(t) /\ reg' = reg
           /\ \/ th[t].op \in {"register_global_root", "register_generational_global_root"}
              \/ th'[t].op \in {"register_global_root", "register_generational_global_root"})
          => lists' = lists]_vars

\* three registrations have returned: of a root that holds a young pointer,
\* of one that holds an old pointer and of one that holds no pointer
C13_Witness ==
  \E a, b, c \in Addrs :
    /\ reg[a] = "gen" /\ slot[a] = "minor_ptr" /\ Present(caml_global_roots_young, a)
    /\ a \notin DOMAIN lists[caml_global_roots_old]
    /\ reg[b] = "gen" /\ slot[b] = "major_ptr" /\ Present(caml_global_roots_old, b)
    /\ b \notin DOMAIN lists[caml_global_roots_young]
    /\ reg[c] = "gen" /\ slot[c] = "int" /\ \A l \in Lists : c \notin DOMAIN lists[l]
    /\ DOMAIN lists[caml_global_roots] = {}
    /\ nops = 3

(* ------------------------------------------------------------------ *)
(* C14                                                                 *)
(* ------------------------------------------------------------------ *)

RemoveOps == {"remove_global_root", "remove_generational_global_root"}

\* thread t is in caml_delete_global_root for a list that has an entry for
\* its root
DeletesEntry(t) ==
  /\ th[t].pc \in {"call", "locked"} /\ th[t].todo # <<>>
  /\ Head(th[t].todo).kind = "del"
  /\ th[t].r \in DOMAIN lists[Head(th[t].todo).list]

\* C14: a step of caml_remove_global_root or
\* caml_remove_generational_global_root changes a list only when it is a
\* caml_delete_global_root on a list that has an entry for the address: for
\* an address that is in no list the whole call leaves the three lists as
\* they are, entries and marks, whether the thread is iterating or not.
C14_UnregisterAbsent ==
  [][\A t \in Threads :
       (StepOf(t) /\ (th[t].op \in RemoveOps \/ th'[t].op \in RemoveOps)) =>
         (DeletesEntry(t) \/ lists' = lists)]_vars

\* a scanning action has called caml_remove_global_root on an address that
\* was never registered, and the call has returned
C14_Witness ==
  \E t \in Threads, a \in Addrs :
    /\ th[t].scan # "none" /\ th[t].pc = "scan"
    /\ \E i \in 1..Len(th[t].log) : th[t].log[i] = <<"remove_global_root", a>>
    /\ \A l \in Lists : a \notin DOMAIN lists[l]
    /\ nops = 3

(* ------------------------------------------------------------------ *)
(* C15                                                                 *)
(* ------------------------------------------------------------------ *)

\* the step is the move of the young roots to the old list by thread t
Promotes(t) ==
  /\ th[t].scan = caml_scan_global_young_roots
  /\ th[t].stage = "promote" /\ th'[t].stage = "end"

\* C15: after the move of caml_scan_global_young_roots the Present entries of
\* the old list are roots that were Present entries of the old list or of the
\* young list just before it, and the young list has none: a root of the
\* young list that the scanning action had removed, its entry being marked
\* ROOT_DELETED, is a Present entry of neither list.
C15_AsStated ==
  [][\A t \in Threads :
       Promotes(t) =>
         \A a \in Addrs :
           /\ ~(a \in DOMAIN lists'[caml_global_roots_young])
           /\ (/\ a \in DOMAIN lists'[caml_global_roots_old]
               /\ lists'[caml_global_roots_old][a] = ROOT_PRESENT) =>
                 (Present(caml_global_roots_old, a) \/ Present(caml_global_roots_young, a))]_vars

(* ------------------------------------------------------------------ *)
(* C16                                                                 *)
(* ------------------------------------------------------------------ *)

\* the list calls of the transition, by the class of *r and of newval
Transition(old_class, new_class) ==
  CASE new_class = YOUNG /\ old_class = YOUNG -> <<>>
    [] new_class = YOUNG /\ old_class = OLD ->
         <<Del(caml_global_roots_old), Ins(caml_global_roots_young)>>
    [] new_class = YOUNG /\ old_class = UNTRACKED -> <<Ins(caml_global_roots_young)>>
    [] new_class = OLD /\ old_class = YOUNG -> <<>>
    [] new_class = OLD /\ old_class = OLD -> <<>>
    [] new_class = OLD /\ old_class = UNTRACKED -> <<Ins(caml_global_roots_old)>>
    [] new_class = UNTRACKED /\ old_class = YOUNG -> <<Del(caml_global_roots_young)>>
    [] new_class = UNTRACKED /\ old_class = OLD ->
         <<Del(caml_global_roots_old), Del(caml_global_roots_young)>>
    [] new_class = UNTRACKED /\ old_class = UNTRACKED -> <<>>

InModify(rec) == rec.op = "modify_generational_global_root"

\* C16: caml_modify_generational_global_root(r, newval) makes the list calls
\* of the transition for the class of *r at its entry and the class of
\* newval, in that order and no other; it does not write *r before they are
\* all made; its last step assigns newval to *r and changes no list.
C16_ModifyTransition ==
  [][\A t \in Threads :
       StepOf(t) =>
         /\ (~InModify(th[t]) /\ InModify(th'[t])) =>
               /\ th'[t].todo = Transition(classify_gc_root(slot[th'[t].r]),
                                           classify_gc_root(th'[t].newval))
               /\ lists' = lists /\ slot' = slot
         /\ (InModify(th[t]) /\ InModify(th'[t])) =>
               /\ th[t].todo # <<>> /\ slot' = slot
               /\ th'[t].r = th[t].r /\ th'[t].newval = th[t].newval
               /\ \/ th'[t].todo = th[t].todo /\ lists' = lists
                  \/ /\ th'[t].todo = Tail(th[t].todo)
                     /\ LET c == Head(th[t].todo)
                        IN IF c.kind = "ins" THEN AddsEntry(t, c.list)
                           ELSE \/ TakesEntry(t, c.list)
                                \/ lists' = [lists EXCEPT ![c.list] = MarkDeleted(@, th[t].r)]
         /\ (InModify(th[t]) /\ ~InModify(th'[t])) =>
               /\ th[t].todo = <<>> /\ lists' = lists
               /\ slot' = [slot EXCEPT ![th[t].r] = th[t].newval]]_vars

\* a root that held an old pointer is given a young one: the two list calls
\* are made, the assignment is not
C16_Witness ==
  \E t \in Threads, a \in Addrs :
    /\ InModify(th[t]) /\ th[t].r = a /\ th[t].todo = <<>>
    /\ th[t].newval = "minor_ptr" /\ slot[a] = "major_ptr"
    /\ Present(caml_global_roots_young, a)
    /\ a \notin DOMAIN lists[caml_global_roots_old]

(* ------------------------------------------------------------------ *)
(* C17                                                                 *)
(* ------------------------------------------------------------------ *)

\* the steps of thread t that wait for nothing: once inside a function the
\* thread goes on, and a scanning action returns
Proceeds(t) ==
  \/ InsertUnlock(t) \/ DeleteMark(t) \/ DeleteUnlock(t) \/ Assign(t)
  \/ IterateElement(t) \/ CallbackReturn(t) \/ Promote(t) \/ ScanUnlock(t)

\* fair scheduling: a thread that can proceed does, and a thread in
\* caml_plat_lock_blocking gets the mutex if it is free again and again
Fairness ==
  \A t \in Threads :
    /\ WF_vars(Proceeds(t))
    /\ SF_vars(InsertLock(t))
    /\ SF_vars(DeleteLock(t))

SpecFair == Spec /\ Fairness

\* thread t is inside a function of the file
Busy(t) == th[t].pc # "idle"

\* thread t, which holds roots_mutex for its scan, is in
\* caml_insert_global_root, called by its scanning action, at
\* caml_plat_lock_blocking
SelfBlocked(t) ==
  /\ th[t].scan # "none" /\ roots_mutex = t
  /\ th[t].pc = "call" /\ th[t].todo # <<>> /\ Head(th[t].todo).kind = "ins"

\* thread t is in a removal called by its scanning action:
\* caml_remove_global_root, caml_remove_generational_global_root, or
\* caml_modify_generational_global_root with a value that is not a pointer
NestedRemove(t) ==
  /\ th[t].scan # "none"
  /\ \/ th[t].op \in RemoveOps
     \/ InModify(th[t]) /\ classify_gc_root(th[t].newval) = UNTRACKED

\* C17 as stated: every call, made by a thread that is not scanning or by a
\* scanning action, returns, and the thread that has returned from its
\* outermost call does not hold roots_mutex.
C17_AsStated ==
  \A t \in Threads : Busy(t) ~> (~Busy(t) /\ roots_mutex # t)

\* C17 as amended: every call returns, the mutex released, unless a scanning
\* action has called a function that inserts
\* (caml_register_global_root, caml_register_generational_global_root, or
\* caml_modify_generational_global_root where it inserts): that call waits for
\* ever for the mutex its own thread holds.  A removal called by a scanning
\* action always returns.
C17_CallsReturn ==
  /\ \A t \in Threads :
       Busy(t) ~> ((~Busy(t) /\ roots_mutex # t) \/ \E u \in Threads : SelfBlocked(u))
  /\ \A t \in Threads : NestedRemove(t) ~> ~NestedRemove(t)
  /\ [][\A t \in Threads : SelfBlocked(t) => SelfBlocked(t)']_vars

\* a removal called by a scanning action has returned, the scan goes on, and
\* another thread waits for the mutex
C17_Witness ==
  \E t, u \in Threads, a \in Addrs :
    /\ t # u
    /\ th[t].scan # "none" /\ th[t].pc \in {"scan", "callback"}
    /\ \E i \in 1..Len(th[t].log) : th[t].log[i][1] \in RemoveOps
    /\ th[u].pc = "call" /\ th[u].todo # <<>>

(* ------------------------------------------------------------------ *)
(* C18                                                                 *)
(* ------------------------------------------------------------------ *)

Deleted(l, a) == a \in DOMAIN lists[l] /\ lists[l][a] = ROOT_DELETED

\* the scan of the thread has finished its loop over list l
\* (caml_iterate_global_roots has read the end of the list)
Walked(rec, l) ==
  /\ rec.scan # "none"
  /\ CASE l = caml_global_roots -> rec.stage # caml_global_roots
       [] l = caml_global_roots_young ->
            rec.stage \in {caml_global_roots_old, "promote", "end"}
       [] OTHER -> rec.scan = caml_scan_global_roots /\ rec.stage = "end"

\* the scanning action of the thread's current scan has called a function
\* that deletes, on address a
MarkedInScan(rec, a) ==
  \E i \in 1..Len(rec.log) :
    /\ rec.log[i][2] = a
    /\ rec.log[i][1] \in RemoveOps \cup {"modify_generational_global_root"}

\* C18: an entry marked ROOT_DELETED does not survive the next complete walk
\* of its list: once a scan has finished its loop over a list, the only
\* entries of that list marked ROOT_DELETED are those the scanning actions of
\* this very scan have deleted; the young list is empty after the promotion
\* of caml_scan_global_young_roots; and an entry gets marked only by a thread
\* that is scanning, so that between two scans no mark appears and a list
\* walked completely since its last mark has no entry marked ROOT_DELETED.
C18_TombstoneLifecycle ==
  /\ [](\A t \in Threads, l \in Lists, a \in Addrs :
         (Walked(th[t], l) /\ Deleted(l, a)) => MarkedInScan(th[t], a))
  /\ [][\A t \in Threads :
          Promotes(t) => lists'[caml_global_roots_young] = SKIPLIST_STATIC_INITIALIZER]_vars
  /\ [][\A l \in Lists, a \in Addrs :
          (Deleted(l, a)' /\ ~Deleted(l, a)) =>
            \E t \in Threads :
              /\ StepOf(t) /\ iterating_roots[t] > 0 /\ th[t].r = a
              /\ a \in DOMAIN lists[l]]_vars

\* a later scan's walk has reached an entry that the scanning action of an
\* earlier scan marked ROOT_DELETED
C18_Witness ==
  \E t \in Threads, l \in Lists, a \in Addrs :
    /\ th[t].pc = "scan" /\ th[t].stage = l /\ th[t].cursor = a
    /\ Deleted(l, a) /\ ~MarkedInScan(th[t], a)

(* ------------------------------------------------------------------ *)
(* C19                                                                 *)
(* ------------------------------------------------------------------ *)

\* thread t enters caml_scan_global_roots or caml_scan_global_young_roots
ScanEnters(t) == th[t].scan = "none" /\ th'[t].scan # "none"

\* thread t returns from it
ScanReturns(t) == th[t].scan # "none" /\ th'[t].scan = "none"

\* C19: iterating_roots of a thread is greater than zero only while the
\* thread holds roots_mutex, so at most one thread has a counter that is not
\* zero; it is never negative; a scan that returns leaves the counter at the
\* value it had when the scan was entered, and the mutex released.
C19_GuardConsistency ==
  /\ [](\A t \in Threads :
         /\ iterating_roots[t] >= 0
         /\ iterating_roots[t] > 0 => roots_mutex = t)
  /\ [](\A t, u \in Threads :
         (iterating_roots[t] # 0 /\ iterating_roots[u] # 0) => t = u)
  /\ [][\A t \in Threads :
          /\ ScanEnters(t) => iterating_roots[t] = 0
          /\ ScanReturns(t) => (iterating_roots'[t] = 0 /\ roots_mutex' = FREE)]_vars

\* a thread is in its scanning action, its counter at 1 and the mutex its
\* own; the other thread, its counter at 0, is in a call and waits for the
\* mutex
C19_Witness ==
  \E t, u \in Threads :
    /\ t # u
    /\ th[t].pc = "callback" /\ iterating_roots[t] = 1 /\ roots_mutex = t
    /\ th[u].pc = "call" /\ iterating_roots[u] = 0

(* ------------------------------------------------------------------ *)
(* C20                                                                 *)
(* ------------------------------------------------------------------ *)

\* a has been unregistered (registering is the only way into the young and
\* the old list) and the call that did it has returned
Unregistered(a) == reg[a] = "none" /\ ~InCall(a)

\* the scan of thread t calls its action f on the entry of a in list l
CallsAction(t, l, a) ==
  /\ StepOf(t) /\ th[t].pc = "scan"
  /\ th'[t].log = Append(th[t].log, <<l, a>>)

\* C20 as stated: once caml_remove_generational_global_root(a) has returned,
\* a is a Present entry of neither the young nor the old list, and no scan
\* calls its action on a.
C20_AsStated ==
  /\ [](\A a \in Addrs :
         Unregistered(a) =>
           (~Present(caml_global_roots_young, a) /\ ~Present(caml_global_roots_old, a)))
  /\ [][\A t \in Threads, a \in Addrs :
          \A l \in {caml_global_roots_young, caml_global_roots_old} :
            CallsAction(t, l, a) => ~Unregistered(a)]_vars

====
